---------------------------- MODULE Spec2Model ----------------------------
(***************************************************************************)
(* Round-trip route optimisation engines of the running-course app.        *)
(*                                                                         *)
(* Fixed-point numbers: every distance (km) and every time (minutes) of    *)
(* the TypeScript code is held as an integer number of 1/U units, so that  *)
(* `km * minPerKm` stays `units * minPerKm`.  A time the code holds in     *)
(* seconds (minutes * 60) is held as the same integer as its minutes, one  *)
(* unit being 60/U second; Seconds(n) is the constant of n seconds.        *)
(* A Location is held in polar form around the start location:             *)
(* [b |-> bearing in degrees, r |-> great-circle distance from the start]. *)
(***************************************************************************)
EXTENDS Integers, Sequences, FiniteSets, TLC

U == 6 * 1000                        \* units per km and per minute

\* ----- bounds of the model (not program constants) -----
MaxLive == 4      \* sweep combinations of one call whose oracle requests get
                  \* an arbitrary answer; the requests of every later
                  \* combination fail (service outage)

\* ----- program constants -----
RUNNING_PACE_MIN_PER_KM_V41 == 5     \* routeOptimizer.v4.ts:348
NUM_ROUTE_CANDIDATES == 3            \* routeOptimizer.v4.ts:349
TIME_TOLERANCE_MIN == 2              \* routeOptimizer.v4.ts:350
numBearings == 8                     \* routeOptimizer.v4.ts:425
MAX_MINUTES == 300                   \* routeOptimizer.v4.ts:396

\* ----- small helpers -----
Abs(x) == IF x < 0 THEN -x ELSE x

Seconds(n) == (n * U) \div 60

\* x * perMille / 1000 without leaving 32 bits
MulPerMille(x, perMille) ==
    (x \div 1000) * perMille + ((x % 1000) * perMille) \div 1000

RECURSIVE SumSeq(_)
SumSeq(s) == IF s = <<>> THEN 0 ELSE Head(s) + SumSeq(Tail(s))

RECURSIVE Reverse(_)
Reverse(s) == IF s = <<>> THEN <<>> ELSE Append(Reverse(Tail(s)), Head(s))

\* Number.prototype.toFixed(1) followed by parseFloat: rounds a non-negative
\* number to one decimal place (half up)
ToFixed1(x) == ((x + U \div 20) \div (U \div 10)) * (U \div 10)

\* ----- GeoMath -----
\* a negative distance along bearing b is a distance along the opposite bearing
Loc(b, r) ==
    IF r = 0 THEN [b |-> 0, r |-> 0]
    ELSE IF r < 0 THEN [b |-> (b + 180) % 360, r |-> 0 - r]
    ELSE [b |-> b, r |-> r]

\* 2 * sin(delta / 2) * 1000 for the angles between two sweep bearings
ChordPerMille(delta) ==
    CASE delta = 0 -> 0
      [] delta = 32 -> 551
      [] delta = 33 -> 568
      [] delta = 36 -> 618
      [] delta = 40 -> 684
      [] delta = 45 -> 765
      [] delta = 51 -> 868
      [] delta = 52 -> 868
      [] delta = 60 -> 1000
      [] delta = 72 -> 1176
      [] delta = 90 -> 1414
      [] delta = 120 -> 1732
      [] delta = 135 -> 1848
      [] delta = 144 -> 1902
      [] delta = 180 -> 2000
      [] OTHER -> 2000

\* Haversine distance of two locations (units)
calculateStraightLineDistance(loc1, loc2) ==
    LET d0 == Abs(loc1.b - loc2.b)
        delta == IF d0 > 180 THEN 360 - d0 ELSE d0
    IN  IF loc1.r = 0 THEN loc2.r
        ELSE IF loc2.r = 0 THEN loc1.r
        ELSE IF delta = 0 THEN Abs(loc1.r - loc2.r)
        ELSE IF loc1.r = loc2.r THEN MulPerMille(loc1.r, ChordPerMille(delta))
        ELSE loc1.r + loc2.r         \* unused by the sweeps: path through the start

\* destination point from the start, given bearing and distance
generateMidpointInDirection(startLocation, distance, bearing) ==
    Loc(bearing, distance)


\* ----- state -----
VARIABLES
    engine,        \* which engine variant this call runs
    minutes,       \* desiredRunningMinutes / targetMinutes argument (units)
    policy,        \* failure policy of the point-to-point client of v4.1
    outage,        \* TRUE when the oracle is down for the whole call
    tripled,       \* TRUE when the oracle answers every request with a route
                   \* three times as long as the requested minutes allow
    cancelled,     \* TRUE once the caller has given the call up
    validation,    \* what validateRoundTripRoute said about the route in `result`
    other,         \* the locals of a second call suspended at an await, if any
    pc,            \* "start", "sweep", "random", "rank", "returned", "threw", or
                   \* "waiting" for a response that never comes
    sweepIdx,      \* 1-based position in the engine's sweep of combinations
    candidates,    \* accepted candidates, in insertion order
    attemptLog,    \* set of the rejected attempts' log entries
    oracleCalls,   \* oracle (OSRM) requests issued so far by this call
    live,          \* combinations whose requests may still get an arbitrary answer
    liveExtra,     \* iterations of the extra-candidate phase of main.tsx whose
                   \* requests may still get an arbitrary answer
    lastCombo,     \* the combination the latest sweep iteration has visited
    lastVerdict,   \* verdict of the latest sweep combination
    result,        \* what the call returned or threw
    app            \* the state of the App component that the course form uses

vars == <<engine, minutes, policy, outage, tripled, app, cancelled, validation, other, pc, sweepIdx, candidates, attemptLog,
          oracleCalls, live, liveExtra, lastCombo, lastVerdict, result>>

startLocation == Loc(0, 0)

\* requested durations tried: -1, 0, 0.5, 2.5, 10, 10.07, 301 minutes
RequestedMinutes ==
    {0 - U, 0, U \div 2, (5 * U) \div 2, 10 * U, 10 * U + (7 * U) \div 100, 301 * U}

NoResult == [kind |-> "none"]

\* there is no second call
NoOther == [engine |-> "none"]

\* validateRoundTripRoute has not been called
NoValidation == [isValid |-> FALSE, errors |-> <<"not validated">>, warnings |-> <<>>]

\* no combination has been visited yet
NoCombo == [scale |-> 0]

\* the App component before the form is submitted: useState('') for error,
\* useState(null) for optimizedRoute, useState(false) for isGenerating,
\* useState(0) for courseDistance (App.tsx 66-74); pc is the position of
\* handleGenerateCourse
NoApp == [pc |-> "idle", isGenerating |-> FALSE, optimizedRoute |-> NoResult,
          error |-> "", courseDistance |-> 0]

\* ----- the routing oracle -----
\* An answer of the oracle to one point-to-point request: a failure (network
\* error, non-2xx status, empty routes) or a route with a distance and a polyline.
OracleFailure == [ok |-> FALSE]

\* polylines the oracle may return for a road of length d leaving the start
\* along bearing b; the last one starts at the road nearest to the start
DirectPath(b, d) == <<startLocation, Loc(b, d)>>
ViaPath(b, d) == <<startLocation, Loc(b, d \div 2), Loc(b, d)>>
SnappedPath(b, d) == <<Loc(b, 30), Loc(b, d \div 2 + 30), Loc(b, d + 30)>>

\* outbound road distances the oracle may answer, chosen around the window of
\* an engine that estimates `perKm` minutes for every km of the round trip;
\* two points within 100 m of one another may be matched to the same place of
\* the road network, and the route between them then has length 0
OracleDistances(mins, perKm) ==
    LET dTarget == mins \div (2 * perKm)
        dLow == (mins - TIME_TOLERANCE_MIN * U) \div (2 * perKm)
    IN  {d \in {dLow - 1, dLow, dTarget, dTarget + 1, 4 * dTarget, U \div 10} : d > 0}
            \cup (IF dTarget <= U \div 10 THEN {0} ELSE {})

OracleRoutes(mins, perKm, b) ==
    LET dTarget == mins \div (2 * perKm)
    IN  IF tripled
        THEN {[ok |-> TRUE, distance |-> 3 * dTarget, path |-> DirectPath(b, 3 * dTarget)]}
        ELSE
        {[ok |-> TRUE, distance |-> d,
          path |-> IF d = dTarget THEN SnappedPath(b, d)
                   ELSE IF d < dTarget THEN ViaPath(b, d) ELSE DirectPath(b, d)]
         : d \in OracleDistances(mins, perKm)}

\* the answers one request can get: anything while the oracle is live, a
\* failure once it is down
OracleAnswers(routes) ==
    IF tripled THEN routes
    ELSE IF live > 0 THEN routes \cup {OracleFailure} ELSE {OracleFailure}

\* ----- engine v4.1: generateOptimizedRoundTripRoute (out-and-back) -----
ScaleFactorsV41 == <<85, 95, 100, 105, 115>>        \* percent

SweepV41 ==
    [i \in 1..(numBearings * Len(ScaleFactorsV41)) |->
        [bearing |-> (((i - 1) \div Len(ScaleFactorsV41)) * 360) \div numBearings,
         scale |-> ScaleFactorsV41[((i - 1) % Len(ScaleFactorsV41)) + 1]]]

\* point-to-point client of v4.1 (imported from routeOptimizer.v2, not in the
\* sources): oracle distance and polyline, or on failure either the
\* straight-line fallback or a "leg unresolvable" error
getOutboundRouteGeometry(from, to, answer, failurePolicy) ==
    IF answer.ok THEN [thrown |-> FALSE, distance |-> answer.distance, path |-> answer.path]
    ELSE IF failurePolicy = "fallback"
         THEN [thrown |-> FALSE, distance |-> calculateStraightLineDistance(from, to),
               path |-> <<from, to>>]
         ELSE [thrown |-> TRUE]

\* outbound polyline followed by its reverse, the turnaround point once
buildRoundTripPath(outboundPath, start) ==
    IF outboundPath = <<>> THEN <<start>>
    ELSE outboundPath \o Tail(Reverse(outboundPath))

\* the window's lower bound with one more minute of tolerance
minAllowedTimeLoose(desiredRunningMinutes) ==
    desiredRunningMinutes - (TIME_TOLERANCE_MIN + 1) * U

\* const minAllowedTime = desiredRunningMinutes - TIME_TOLERANCE_MIN (line 401)
minAllowedTimeV41(desiredRunningMinutes) ==
    desiredRunningMinutes - TIME_TOLERANCE_MIN * U

\* one sweep combination of v4.1: lines 431-529
EvaluateV41(mins, combo, answer, failurePolicy) ==
    LET minAllowedTime == minAllowedTimeV41(mins)
        maxAllowedTime == mins
        targetTime == mins
        targetRoundTripKm == mins \div RUNNING_PACE_MIN_PER_KM_V41
        targetOutboundKm == targetRoundTripKm \div 2
        scaledOutboundKm == (targetOutboundKm * combo.scale) \div 100
        midLocation == generateMidpointInDirection(startLocation, scaledOutboundKm, combo.bearing)
        outboundRoute == getOutboundRouteGeometry(startLocation, midLocation, answer, failurePolicy)
        outboundDistanceKm == outboundRoute.distance
        roundTripDistanceKm == outboundDistanceKm * 2
        estimatedMinutes == roundTripDistanceKm * RUNNING_PACE_MIN_PER_KM_V41
        logged(reason) == [reason |-> reason, estimatedMin |-> ToFixed1(estimatedMinutes)]
    IN  IF outboundRoute.thrown
        THEN [verdict |-> "error", calls |-> 1,
              logs |-> {[reason |-> "error", estimatedMin |-> 0]}]
        ELSE IF outboundDistanceKm > scaledOutboundKm * 3
        THEN [verdict |-> "anomalous", calls |-> 1, logs |-> {logged("anomalous")}]
        ELSE IF estimatedMinutes > maxAllowedTime
        THEN [verdict |-> "over", calls |-> 1, logs |-> {logged("over")}]
        ELSE IF estimatedMinutes < minAllowedTime
        THEN [verdict |-> "under", calls |-> 1, logs |-> {logged("under")}]
        ELSE [verdict |-> "accepted", calls |-> 1, logs |-> {},
              candidate |->
                [midLocation |-> midLocation,
                 bearing |-> combo.bearing,
                 outboundDistance |-> outboundDistanceKm,
                 roundTripDistance |-> roundTripDistanceKm,
                 estimatedMinutes |-> estimatedMinutes,
                 routePath |-> buildRoundTripPath(outboundRoute.path, startLocation),
                 score |-> Abs(targetTime - estimatedMinutes)]]


\* ----- routeOptimizer.v2 (v2.1): waypoints, oracle clients, evaluateRoute -----
RUNNING_PACE_MIN_PER_KM_V21 == 6     \* routeOptimizer.v2.ts:62
MAX_WAYPOINTS == 20                  \* routeOptimizer.v2.ts:77

\* numWaypoints points on the circle of radius maxDistanceKm around the start
generateCircularWaypoints(start, maxDistanceKm, numWaypoints) ==
    [i \in 1..numWaypoints |-> Loc(((i - 1) * 360) \div numWaypoints, maxDistanceKm)]

\* two-point request: the oracle's distance and duration, or the straight-line
\* distance and a pace-derived duration
getSegmentRouteInfo(from, to, answer) ==
    IF answer.ok
    THEN [distance |-> answer.distance, duration |-> answer.duration]
    ELSE LET distance == calculateStraightLineDistance(from, to)
         IN  [distance |-> distance, duration |-> distance * RUNNING_PACE_MIN_PER_KM_V21]

\* every leg of start -> wp1 -> ... -> wpN -> start; answers[i] is the oracle's
\* answer to the request of leg i
evaluateRoute(start, waypoints, answers) ==
    LET closedWaypoints == <<start>> \o waypoints \o <<start>>
        info == [i \in 1..(Len(closedWaypoints) - 1) |->
                    getSegmentRouteInfo(closedWaypoints[i], closedWaypoints[i + 1], answers[i])]
        segments == [i \in 1..(Len(closedWaypoints) - 1) |->
                        [from |-> closedWaypoints[i], to |-> closedWaypoints[i + 1],
                         distance |-> info[i].distance, duration |-> info[i].duration]]
    IN  [totalDistance |-> SumSeq([i \in 1..Len(info) |-> info[i].distance]),
         estimatedTime |-> SumSeq([i \in 1..Len(info) |-> info[i].duration]),
         segments |-> segments]

\* multi-point request (at least two points): the oracle's polyline, or the
\* waypoints themselves joined by straight lines
getClosedRouteGeometry(waypoints, answer) ==
    LET maxWaypoints == IF Len(waypoints) < MAX_WAYPOINTS THEN Len(waypoints) ELSE MAX_WAYPOINTS
        limitedWaypoints == SubSeq(waypoints, 1, maxWaypoints)
        totalDistance == SumSeq([i \in 1..(Len(limitedWaypoints) - 1) |->
                            calculateStraightLineDistance(limitedWaypoints[i], limitedWaypoints[i + 1])])
    IN  IF answer.ok
        THEN [distance |-> answer.distance, duration |-> answer.duration, path |-> answer.path]
        ELSE [distance |-> totalDistance,
              duration |-> totalDistance * RUNNING_PACE_MIN_PER_KM_V21,
              path |-> limitedWaypoints]

\* answers of the oracle to the requests of one loop-shaped combination with
\* n waypoints: the legs' answers are all alike, or the first leg fails
LegAnswers(mins, n) ==
    LET share == mins \div (2 * (n + 1))
    IN  {[ok |-> TRUE, distance |-> share \div RUNNING_PACE_MIN_PER_KM_V21, duration |-> share],
         [ok |-> TRUE, distance |-> share \div RUNNING_PACE_MIN_PER_KM_V21, duration |-> share + U],
         [ok |-> TRUE, distance |-> share \div RUNNING_PACE_MIN_PER_KM_V21, duration |-> share \div 4],
         [ok |-> TRUE, distance |-> 10 * Abs(mins) + U, duration |-> share],
         OracleFailure}

AllLegsFail(n) == [i \in 1..(n + 1) |-> OracleFailure]

LegProfilesWhen(up, mins, n) ==
    IF tripled
    THEN {[i \in 1..(n + 1) |->
             [ok |-> TRUE,
              distance |-> (3 * (mins \div (2 * (n + 1)))) \div RUNNING_PACE_MIN_PER_KM_V21,
              duration |-> 3 * (mins \div (2 * (n + 1)))]]}
    ELSE IF up
    THEN {[i \in 1..(n + 1) |-> a] : a \in LegAnswers(mins, n)}
         \cup {[i \in 1..(n + 1) |-> IF i = 1 THEN OracleFailure
                                     ELSE [ok |-> TRUE,
                                           distance |-> (mins \div (2 * (n + 1))) \div RUNNING_PACE_MIN_PER_KM_V21,
                                           duration |-> mins \div (2 * (n + 1))]]}
    ELSE {AllLegsFail(n)}

LegProfiles(mins, n) == LegProfilesWhen(live > 0, mins, n)

\* answers of the oracle to the multi-point request through `closed`
GeometryAnswersWhen(up, closed) ==
    IF tripled THEN {[ok |-> TRUE, distance |-> 0, duration |-> 0, path |-> closed]}
    ELSE IF up
    THEN {OracleFailure,
          [ok |-> TRUE, distance |-> 0, duration |-> 0, path |-> closed],
          [ok |-> TRUE, distance |-> 0, duration |-> 0,
           path |-> <<Loc(0, 30)>> \o SubSeq(closed, 2, Len(closed) - 1)
                    \o <<Loc(closed[Len(closed) - 1].b, closed[Len(closed) - 1].r \div 2), Loc(0, 30)>>]}
    ELSE {OracleFailure}

GeometryAnswers(closed) == GeometryAnswersWhen(live > 0, closed)

\* ----- engines v4.0: generateOptimizedRoundTripRoute (loop waypoints) -----
PACE_KM_PER_MIN_INVERSE == 6         \* RUNNING_PACE_KM_PER_MIN = 1 / 6, routeOptimizer.v4.ts:745
MAX_WAYPOINT_KM == 10                \* routeOptimizer.v4.ts:848

\* the out-and-back path cut from the loop geometry: lines 893-897 (149-154)
roundTripPathFromGeometry(path) ==
    LET pathLength == Len(path)
        midIndex == (pathLength + 1) \div 2
        outboundPath == SubSeq(path, 1, midIndex)
        returnPath == Reverse(SubSeq(outboundPath, 2, Len(outboundPath)))
    IN  outboundPath \o returnPath

\* search patterns of the third variant, flattened in loop order: pattern,
\* then waypoint count, then scale factor (lines 817-827)
PatternSweep(scaleBases, waypointCounts) ==
    [i \in 1..(Len(scaleBases) * Len(waypointCounts)) |->
        [waypointCount |-> waypointCounts[((i - 1) \div Len(scaleBases)) + 1],
         scale |-> scaleBases[((i - 1) % Len(scaleBases)) + 1]]]

SweepV40s ==
    PatternSweep(<<80, 90, 100, 110, 120>>, <<2, 3, 4>>)
    \o PatternSweep(<<70, 130>>, <<2, 3, 4, 5>>)
    \o PatternSweep(<<85, 95, 105, 115>>, <<3>>)

\* one combination of the third variant: lines 828-935
EvaluateV40s(mins, combo, legAnswers, geometryAnswer) ==
    LET minAllowedTime == mins - TIME_TOLERANCE_MIN * U          \* seconds
        maxAllowedTime == mins                                    \* seconds
        targetTime == mins                                        \* seconds
        estimatedTotalDistance == mins * PACE_KM_PER_MIN_INVERSE
        estimatedOutboundDistance == ((estimatedTotalDistance \div 2) * combo.scale) \div 100
        outboundWaypoints == generateCircularWaypoints(startLocation, estimatedOutboundDistance,
                                                       combo.waypointCount)
        tooFar == \E i \in 1..Len(outboundWaypoints) :
                     calculateStraightLineDistance(startLocation, outboundWaypoints[i])
                        > MAX_WAYPOINT_KM * U
        closedOutboundWaypoints == <<startLocation>> \o outboundWaypoints \o <<startLocation>>
        outboundRouteInfo == evaluateRoute(startLocation, outboundWaypoints, legAnswers)
        routeGeometry == getClosedRouteGeometry(closedOutboundWaypoints, geometryAnswer)
        roundTripTime == outboundRouteInfo.estimatedTime * 2      \* seconds
        roundTripDistance == outboundRouteInfo.totalDistance * 2
    IN  IF tooFar
        THEN [verdict |-> "error", calls |-> 0, logs |-> {[reason |-> "error"]}]
        ELSE IF roundTripDistance > estimatedTotalDistance * 3
        THEN [verdict |-> "anomalous", calls |-> combo.waypointCount + 2,
              logs |-> {[reason |-> "anomalous"]}]
        ELSE IF roundTripTime > maxAllowedTime
        THEN [verdict |-> "over", calls |-> combo.waypointCount + 2,
              logs |-> {[reason |-> "over"]}]
        ELSE IF roundTripTime < minAllowedTime
        THEN [verdict |-> "under", calls |-> combo.waypointCount + 2,
              logs |-> {[reason |-> "under"]}]
        ELSE [verdict |-> "accepted", calls |-> combo.waypointCount + 2, logs |-> {},
              candidate |->
                [outboundWaypoints |-> outboundWaypoints,
                 routeInfo |-> [totalDistance |-> roundTripDistance,
                                estimatedTime |-> roundTripTime,
                                segments |-> outboundRouteInfo.segments],
                 routePath |-> roundTripPathFromGeometry(routeGeometry.path),
                 outboundDistance |-> outboundRouteInfo.totalDistance,
                 score |-> Abs(targetTime - roundTripTime)
                           + combo.waypointCount * Seconds(10)]]

SCALE_FACTORS_V40 == <<90, 100, 110>>                \* percent, line 29
waypointCountV40 == 4                \* routeOptimizer.v4.ts:109

SweepV40 == [i \in 1..Len(SCALE_FACTORS_V40) |->
                [waypointCount |-> waypointCountV40, scale |-> SCALE_FACTORS_V40[i]]]

\* one scale factor of the first variant: lines 103-192
EvaluateV40(mins, combo, legAnswers, geometryAnswer) ==
    LET minAllowedTime == mins - TIME_TOLERANCE_MIN * U          \* seconds
        maxAllowedTime == mins                                    \* seconds
        targetTime == mins                                        \* seconds
        targetOutboundTime == targetTime \div 2                   \* seconds
        estimatedOutboundDistance ==
            (targetOutboundTime * (10 * PACE_KM_PER_MIN_INVERSE) * combo.scale) \div 100
        outboundWaypoints == generateCircularWaypoints(startLocation, estimatedOutboundDistance,
                                                       combo.waypointCount)
        closedOutboundWaypoints == <<startLocation>> \o outboundWaypoints \o <<startLocation>>
        outboundRouteInfo == evaluateRoute(startLocation, outboundWaypoints, legAnswers)
        roundTripTime == outboundRouteInfo.estimatedTime * 2      \* seconds
        roundTripDistance == outboundRouteInfo.totalDistance * 2
        routeGeometry == getClosedRouteGeometry(closedOutboundWaypoints, geometryAnswer)
    IN  IF roundTripTime > maxAllowedTime
        THEN [verdict |-> "over", calls |-> combo.waypointCount + 1, logs |-> {}]
        ELSE IF roundTripTime < minAllowedTime
        THEN [verdict |-> "under", calls |-> combo.waypointCount + 1, logs |-> {}]
        ELSE [verdict |-> "accepted", calls |-> combo.waypointCount + 2, logs |-> {},
              candidate |->
                [outboundWaypoints |-> outboundWaypoints,
                 routeInfo |-> [totalDistance |-> roundTripDistance,
                                estimatedTime |-> roundTripTime,
                                segments |-> outboundRouteInfo.segments],
                 routePath |-> roundTripPathFromGeometry(routeGeometry.path),
                 outboundDistance |-> outboundRouteInfo.totalDistance,
                 score |-> Abs(targetTime - roundTripTime)
                           + combo.waypointCount * Seconds(10)]]

\* ----- engines v3.0 and v2.2: generateOptimizedClosedRoute (out-and-back) -----
RUNNING_PACE_MIN_PER_KM_V30 == 5     \* routeOptimizer.v2.ts:733
TIME_BUFFER_MIN == 2                 \* routeOptimizer.v2.ts:734
MAX_CANDIDATES_V30 == 3              \* routeOptimizer.v2.ts:792
MAX_CANDIDATES_V22 == 30             \* unnamed/part_004:31
SECONDS_PER_MINUTE == 60             \* routeOptimizer.v2.ts:814

BearingScaleSweep(bearings, scales) ==
    [i \in 1..(Len(bearings) * Len(scales)) |->
        [bearing |-> bearings[((i - 1) \div Len(scales)) + 1],
         scale |-> scales[((i - 1) % Len(scales)) + 1]]]

BearingsV30 == <<0, 45, 90, 135, 180, 225, 270, 315>>

SweepV30 == BearingScaleSweep(BearingsV30, <<80, 85, 90, 95, 100, 105, 110, 115, 120>>)

\* the sweep of v2.2 stops at MAX_CANDIDATES attempts
SweepV22 ==
    SubSeq(BearingScaleSweep(BearingsV30, <<85, 90, 95, 100, 105, 110, 115>>),
           1, MAX_CANDIDATES_V22)

Max(a, b) == IF a > b THEN a ELSE b

\* Math.round(x * 10) / 10
RoundToTenth(x) == ((x + U \div 20) \div (U \div 10)) * (U \div 10)

\* the length of a polyline: the sum of its legs' haversine distances
calculatePathDistance(path) ==
    SumSeq([i \in 1..(Len(path) - 1) |-> calculateStraightLineDistance(path[i], path[i + 1])])

\* v3.0 client: the oracle's polyline, or null
getRouteViaOSRM(from, to, answer) ==
    IF answer.ok THEN [null |-> FALSE, path |-> answer.path] ELSE [null |-> TRUE]

\* v2.2 client: the oracle's polyline and distance, or null
getRouteSegment(from, to, answer) ==
    IF answer.ok THEN [null |-> FALSE, path |-> answer.path, distance |-> answer.distance]
    ELSE [null |-> TRUE]

\* the outward polyline followed by its reverse, the turnaround point twice
outAndBackPathRepeatingTurnaround(outwardPath) == outwardPath \o Reverse(outwardPath)

\* [...outwardPath, ...returnPath.slice(1)] with returnPath the reversed
\* outward polyline (part_004 lines 205-209, routeOptimizer.v2.ts 828-830)
outAndBackPath(outwardPath) == outwardPath \o Tail(Reverse(outwardPath))

\* estimated minutes of a total distance, as v3.0 and v2.2 compute it
EstimatedTimeV30(totalDist) == (totalDist * SECONDS_PER_MINUTE) \div RUNNING_PACE_MIN_PER_KM_V30

\* one bearing x scale combination of generateCandidates (v3.0): lines 802-842
EvaluateV30(mins, combo, answer) ==
    LET targetHalfDist == (mins \div RUNNING_PACE_MIN_PER_KM_V30) \div 2
        minTime == Max(1 * U, mins - TIME_BUFFER_MIN * U)
        maxTime == mins
        adjustedDist == (targetHalfDist * combo.scale) \div 100
        midLoc == generateMidpointInDirection(startLocation, adjustedDist, combo.bearing)
        outward == getRouteViaOSRM(startLocation, midLoc, answer)
        outwardPath == outward.path
        outwardDist == calculatePathDistance(outwardPath)
        totalDist == outwardDist * 2
        estimatedTime == EstimatedTimeV30(totalDist)
        routePath == outAndBackPath(outwardPath)
    IN  IF outward.null THEN [verdict |-> "error", calls |-> 1, logs |-> {}]
        ELSE IF estimatedTime > maxTime THEN [verdict |-> "over", calls |-> 1, logs |-> {}]
        ELSE IF estimatedTime < minTime THEN [verdict |-> "under", calls |-> 1, logs |-> {}]
        ELSE [verdict |-> "accepted", calls |-> 1, logs |-> {},
              candidate |-> [midLocation |-> midLoc,
                             totalDistance |-> totalDist,
                             estimatedTime |-> RoundToTenth(estimatedTime),
                             rawEstimate |-> estimatedTime,
                             outwardPath |-> outwardPath,
                             routePath |-> routePath]]

\* tryGenerateRoute (v2.2): lines 195-231
tryGenerateRoute(start, midLocation, answer) ==
    LET outwardSegment == getRouteSegment(start, midLocation, answer)
        routePath == outAndBackPath(outwardSegment.path)
        totalDistance == outwardSegment.distance * 2
        estimatedTime == EstimatedTimeV30(totalDistance)
    IN  IF outwardSegment.null THEN [null |-> TRUE]
        ELSE [null |-> FALSE,
              midLocation |-> midLocation,
              totalDistance |-> totalDistance,
              estimatedTime |-> RoundToTenth(estimatedTime),
              rawEstimate |-> estimatedTime,
              routePath |-> routePath,
              outwardPath |-> outwardSegment.path]

\* one bearing x scale combination of exploreMiddlePoints (v2.2): lines 159-181
EvaluateV22(mins, combo, answer) ==
    LET targetHalfDistance == (mins \div RUNNING_PACE_MIN_PER_KM_V30) \div 2
        adjustedDistance == (targetHalfDistance * combo.scale) \div 100
        midLocation == generateMidpointInDirection(startLocation, adjustedDistance, combo.bearing)
        route == tryGenerateRoute(startLocation, midLocation, answer)
        minTime == Max(1 * U, mins - TIME_BUFFER_MIN * U)
        maxTime == mins
    IN  IF route.null THEN [verdict |-> "error", calls |-> 1, logs |-> {}]
        ELSE IF route.estimatedTime >= minTime /\ route.estimatedTime <= maxTime
        THEN [verdict |-> "accepted", calls |-> 1, logs |-> {},
              candidate |-> [midLocation |-> route.midLocation,
                             totalDistance |-> route.totalDistance,
                             estimatedTime |-> route.estimatedTime,
                             rawEstimate |-> route.rawEstimate,
                             outwardPath |-> route.outwardPath,
                             routePath |-> route.routePath]]
        ELSE [verdict |-> IF route.estimatedTime > maxTime THEN "over" ELSE "under",
              calls |-> 1, logs |-> {}]

\* a reduce that lets the later candidate win a tie
RECURSIVE ReduceBestLatestOnTie(_, _, _)
ReduceBestLatestOnTie(prev, rest, targetMinutes) ==
    IF rest = <<>> THEN prev
    ELSE LET curr == Head(rest)
             prevDiff == Abs(prev.estimatedTime - targetMinutes)
             currDiff == Abs(curr.estimatedTime - targetMinutes)
         IN  ReduceBestLatestOnTie(IF currDiff <= prevDiff THEN curr ELSE prev,
                                   Tail(rest), targetMinutes)

\* candidates.reduce(...): the smallest |estimatedTime - target|, the earlier
\* candidate on a tie (lines 763-767; part_004 lines 65-69)
RECURSIVE ReduceBest(_, _, _)
ReduceBest(prev, rest, targetMinutes) ==
    IF rest = <<>> THEN prev
    ELSE LET curr == Head(rest)
             prevDiff == Abs(prev.estimatedTime - targetMinutes)
             currDiff == Abs(curr.estimatedTime - targetMinutes)
         IN  ReduceBest(IF currDiff < prevDiff THEN curr ELSE prev, Tail(rest), targetMinutes)

\* Array.prototype.sort((a, b) => a.score - b.score): stable, ascending score
RECURSIVE InsertByScore(_, _)
InsertByScore(c, sorted) ==
    IF sorted = <<>> THEN <<c>>
    ELSE IF c.score < Head(sorted).score THEN <<c>> \o sorted
    ELSE <<Head(sorted)>> \o InsertByScore(c, Tail(sorted))

RECURSIVE SortByScore(_)
SortByScore(cs) ==
    IF cs = <<>> THEN <<>>
    ELSE InsertByScore(cs[Len(cs)], SortByScore(SubSeq(cs, 1, Len(cs) - 1)))

SetMax(S) == CHOOSE x \in S : \A y \in S : y <= x

\* a summary that reports an excess only beyond three times the upper bound
DiagnosticV41AboveTripleOnly(log, mins) ==
    LET minAllowedTime == mins - TIME_TOLERANCE_MIN * U
        maxAllowedTime == mins
        maxEstimated == SetMax({a.estimatedMin : a \in log})
    IN  IF log = {} \/ maxEstimated < minAllowedTime THEN "below the lower bound"
        ELSE IF maxEstimated > 3 * maxAllowedTime THEN "above the upper bound"
        ELSE "no summary"

\* summary appended to the no-route error message of v4.1: lines 550-562
DiagnosticV41(log, mins) ==
    LET minAllowedTime == mins - TIME_TOLERANCE_MIN * U
        maxAllowedTime == mins
        maxEstimated == SetMax({a.estimatedMin : a \in log})
    IN  IF log = {} \/ maxEstimated < minAllowedTime THEN "below the lower bound"
        ELSE IF maxEstimated > maxAllowedTime THEN "above the upper bound"
        ELSE "no summary"

\* the request validation at the head of an engine: lines 396-398
InvalidMinutes(mins) == mins <= 0 \/ mins > MAX_MINUTES * U

\* the form's check of the minutes before the engine is called: utils.ts 236-252
validateRunningMinutes(num) ==
    IF num <= 0 THEN [valid |-> FALSE, error |-> "must be greater than 0"]
    ELSE IF num > MAX_MINUTES * U THEN [valid |-> FALSE, error |-> "must be at most 300"]
    ELSE [valid |-> TRUE, error |-> "none"]

\* ----- the driver's steps -----
\* a loop that gives up at the first combination that fails
loopControlAbortingOnError(verdict, poolLen, idx, sweepLen, cap) ==
    IF verdict = "error" \/ (verdict = "accepted" /\ poolLen >= cap) \/ idx >= sweepLen
    THEN "rank" ELSE "sweep"

\* a loop without the break on a full pool
loopControlWithoutCap(verdict, poolLen, idx, sweepLen, cap) ==
    IF idx >= sweepLen THEN "rank" ELSE "sweep"

\* where the sweep's loops go after a combination: `continue` and `catch` go to
\* the next combination, the `break`s on a full pool and the end of the loops
\* go to the ranking (v4.ts 510-533, 922-940; v2.ts 797-800)
loopControl(verdict, poolLen, idx, sweepLen, cap) ==
    IF (verdict = "accepted" /\ poolLen >= cap) \/ idx >= sweepLen
    THEN "rank" ELSE "sweep"

\* bookkeeping shared by the sweeps: the candidate is pushed or the attempt is
\* logged, and the loop goes on, or breaks once `cap` candidates are in
AfterAttempt(outcome, sweepLen, cap) ==
    LET accepted == outcome.verdict = "accepted"
        pool == IF accepted THEN Append(candidates, outcome.candidate) ELSE candidates
    IN  /\ candidates' = pool
        /\ attemptLog' = attemptLog \cup outcome.logs
        /\ oracleCalls' = oracleCalls + outcome.calls
        /\ live' = IF live > 0 /\ outcome.calls > 0 THEN live - 1 ELSE live
        /\ lastVerdict' = outcome.verdict
        /\ sweepIdx' = sweepIdx + 1
        /\ pc' = loopControl(outcome.verdict, Len(pool), sweepIdx, sweepLen, cap)
        /\ UNCHANGED <<engine, minutes, policy, outage, tripled, app, cancelled, validation, other, liveExtra, result>>

\* the head of generateOptimizedRoundTripRoute (all three variants): the
\* request is validated before anything else, lines 396-398 (81-83, 798-800)
ValidateRequest ==
    /\ engine \in {"v4.0", "v4.1", "v4.0s", "v3.0m", "v2.0"} /\ pc = "start"
    /\ IF InvalidMinutes(minutes)
       THEN pc' = "threw" /\ result' = [kind |-> "InvalidInput"]
       ELSE pc' = "sweep" /\ result' = result
    /\ UNCHANGED <<engine, minutes, policy, outage, tripled, app, cancelled, validation, other, sweepIdx, candidates, attemptLog,
                   oracleCalls, live, liveExtra, lastCombo, lastVerdict>>

\* an iteration of v4.1 that picks any combination of the sweep instead of
\* the one the loops have reached
AttemptV41AnyCombination ==
    /\ engine = "v4.1" /\ pc = "sweep"
    /\ \E k \in 1..Len(SweepV41) :
         LET combo == SweepV41[k]
         IN  \E answer \in OracleAnswers(OracleRoutes(minutes, RUNNING_PACE_MIN_PER_KM_V41,
                                                       combo.bearing)) :
               /\ AfterAttempt(EvaluateV41(minutes, combo, answer, policy),
                               Len(SweepV41), NUM_ROUTE_CANDIDATES)
               /\ lastCombo' = combo

\* one iteration of the bearing x scale loops of v4.1, lines 426-533
AttemptV41 ==
    /\ engine = "v4.1" /\ pc = "sweep"
    /\ LET combo == SweepV41[sweepIdx]
       IN  \E answer \in OracleAnswers(OracleRoutes(minutes, RUNNING_PACE_MIN_PER_KM_V41,
                                                     combo.bearing)) :
             /\ AfterAttempt(EvaluateV41(minutes, combo, answer, policy),
                          Len(SweepV41), NUM_ROUTE_CANDIDATES)
             /\ lastCombo' = combo

\* candidate evaluation and selection of v4.1, lines 536-603
\* the test of an empty pool, failing for a pool of one as well
noValidCandidatesOffByOne(validCandidates) == Len(validCandidates) <= 1

\* validCandidates.length === 0 (line 536)
noValidCandidates(validCandidates) == Len(validCandidates) = 0

\* the end of generateOptimizedRoundTripRoute v4.1, lines 535-603
SelectV41 ==
    /\ engine = "v4.1" /\ pc = "rank"
    /\ IF noValidCandidates(candidates)
       THEN /\ pc' = "threw"
            /\ result' = [kind |-> "NoRouteFound",
                          diagnostic |-> DiagnosticV41(attemptLog, minutes)]
       ELSE LET bestCandidate == SortByScore(candidates)[1]
            IN  /\ pc' = "returned"
                /\ result' = [kind |-> "route",
                              waypoints |-> <<bestCandidate.midLocation>>,
                              totalDistance |-> bestCandidate.roundTripDistance,
                              estimatedTime |-> bestCandidate.estimatedMinutes,
                              routePath |-> bestCandidate.routePath,
                              score |-> bestCandidate.score]
    /\ UNCHANGED <<engine, minutes, policy, outage, tripled, app, cancelled, validation, other, sweepIdx, candidates, attemptLog,
                   oracleCalls, live, liveExtra, lastCombo, lastVerdict>>

\* what generateOptimizedRoundTripRoute v4.0 returns for the best candidate
RouteOfLoopCandidate(bestCandidate) ==
    [kind |-> "route",
     waypoints |-> bestCandidate.outboundWaypoints,
     segments |-> bestCandidate.routeInfo.segments,
     totalDistance |-> bestCandidate.routeInfo.totalDistance,
     estimatedTime |-> bestCandidate.routeInfo.estimatedTime,
     routePath |-> bestCandidate.routePath,
     score |-> bestCandidate.score]

\* one scale factor of the first variant, lines 102-193
AttemptV40 ==
    /\ engine = "v4.0" /\ pc = "sweep"
    /\ LET combo == SweepV40[sweepIdx]
           wps == generateCircularWaypoints(startLocation,
                     ((minutes \div 2) * (10 * PACE_KM_PER_MIN_INVERSE) * combo.scale) \div 100,
                     combo.waypointCount)
       IN  \E legs \in LegProfiles(minutes, combo.waypointCount),
              geo \in GeometryAnswers(<<startLocation>> \o wps \o <<startLocation>>) :
             /\ AfterAttempt(EvaluateV40(minutes, combo, legs, geo),
                          Len(SweepV40), Len(SweepV40) + 1)
             /\ lastCombo' = combo

\* candidate evaluation and selection of the first variant, lines 196-243
SelectV40 ==
    /\ engine = "v4.0" /\ pc = "rank"
    /\ IF candidates = <<>>
       THEN pc' = "threw" /\ result' = [kind |-> "NoRouteFound", diagnostic |-> "none"]
       ELSE pc' = "returned" /\ result' = RouteOfLoopCandidate(SortByScore(candidates)[1])
    /\ UNCHANGED <<engine, minutes, policy, outage, tripled, app, cancelled, validation, other, sweepIdx, candidates, attemptLog,
                   oracleCalls, live, liveExtra, lastCombo, lastVerdict>>

\* one combination of the search patterns of the third variant, lines 823-940
AttemptV40s ==
    /\ engine = "v4.0s" /\ pc = "sweep"
    /\ LET combo == SweepV40s[sweepIdx]
           wps == generateCircularWaypoints(startLocation,
                     (((minutes * PACE_KM_PER_MIN_INVERSE) \div 2) * combo.scale) \div 100,
                     combo.waypointCount)
       IN  \E legs \in LegProfiles(minutes, combo.waypointCount),
              geo \in GeometryAnswers(<<startLocation>> \o wps \o <<startLocation>>) :
             /\ AfterAttempt(EvaluateV40s(minutes, combo, legs, geo),
                          Len(SweepV40s), NUM_ROUTE_CANDIDATES)
             /\ lastCombo' = combo

\* the cause named by the no-route error of the third variant, lines 949-965
DiagnosticV40s(log) ==
    LET hasTimeIssues == \E a \in log : a.reason \in {"over", "under"}
    IN  IF hasTimeIssues
        THEN [cause |-> "time",
              longer |-> \E a \in log : a.reason = "over",
              shorter |-> \E a \in log : a.reason = "under"]
        ELSE [cause |-> "oracle", longer |-> FALSE, shorter |-> FALSE]

\* candidate evaluation and selection of the third variant, lines 943-1010
SelectV40s ==
    /\ engine = "v4.0s" /\ pc = "rank"
    /\ IF candidates = <<>>
       THEN pc' = "threw" /\ result' = [kind |-> "NoRouteFound",
                                        diagnostic |-> DiagnosticV40s(attemptLog)]
       ELSE pc' = "returned" /\ result' = RouteOfLoopCandidate(SortByScore(candidates)[1])
    /\ UNCHANGED <<engine, minutes, policy, outage, tripled, app, cancelled, validation, other, sweepIdx, candidates, attemptLog,
                   oracleCalls, live, liveExtra, lastCombo, lastVerdict>>

\* minutes v3.0 and v2.2 estimate for one km: (km / 5) * 60
MinutesPerKmV30 == SECONDS_PER_MINUTE \div RUNNING_PACE_MIN_PER_KM_V30

\* generateOptimizedClosedRoute v3.0 and v2.2 start their sweep without any
\* check of the requested minutes (routeOptimizer.v2.ts 749-756, part_004 51-58)
EnterSweep ==
    /\ engine \in {"v3.0", "v2.2"} /\ pc = "start"
    /\ pc' = "sweep"
    /\ UNCHANGED <<engine, minutes, policy, outage, tripled, app, cancelled, validation, other, sweepIdx, candidates, attemptLog,
                   oracleCalls, live, liveExtra, lastCombo, lastVerdict, result>>

\* one iteration of the loops of generateCandidates (v3.0), lines 796-844
AttemptV30 ==
    /\ engine = "v3.0" /\ pc = "sweep"
    /\ LET combo == SweepV30[sweepIdx]
       IN  \E answer \in OracleAnswers(OracleRoutes(minutes, MinutesPerKmV30, combo.bearing)) :
             /\ AfterAttempt(EvaluateV30(minutes, combo, answer),
                          Len(SweepV30), MAX_CANDIDATES_V30)
             /\ lastCombo' = combo

\* one iteration of the loops of exploreMiddlePoints (v2.2), lines 155-185
AttemptV22 ==
    /\ engine = "v2.2" /\ pc = "sweep"
    /\ LET combo == SweepV22[sweepIdx]
       IN  \E answer \in OracleAnswers(OracleRoutes(minutes, MinutesPerKmV30, combo.bearing)) :
             /\ AfterAttempt(EvaluateV22(minutes, combo, answer),
                          Len(SweepV22), Len(SweepV22) + 1)
             /\ lastCombo' = combo

\* the end of generateOptimizedClosedRoute v3.0 (lines 758-777) and v2.2
\* (part_004 lines 60-79)
SelectClosedRoute ==
    /\ engine \in {"v3.0", "v2.2"} /\ pc = "rank"
    /\ IF candidates = <<>>
       THEN pc' = "threw" /\ result' = [kind |-> "NoRouteFound", diagnostic |-> "none"]
       ELSE LET bestRoute == ReduceBest(Head(candidates), Tail(candidates), minutes)
            IN  /\ pc' = "returned"
                /\ result' = [kind |-> "route",
                              midLocation |-> bestRoute.midLocation,
                              totalDistance |-> bestRoute.totalDistance,
                              estimatedTime |-> bestRoute.estimatedTime,
                              routePath |-> bestRoute.routePath,
                              outwardPath |-> bestRoute.outwardPath]
    /\ UNCHANGED <<engine, minutes, policy, outage, tripled, app, cancelled, validation, other, sweepIdx, candidates, attemptLog,
                   oracleCalls, live, liveExtra, lastCombo, lastVerdict>>

\* ----- engine of main.tsx: generateOptimizedClosedRoute (candidate comparison) -----
RUNNING_PACE_MIN_PER_KM_MAIN == 6    \* main.tsx:51
MIN_ROUTE_CANDIDATES == 10           \* main.tsx:52
MAX_ROUTE_CANDIDATES == 30           \* main.tsx:53
DUPLICATE_THRESHOLD_METERS == 20     \* main.tsx:54
DURATION_MARGIN_SECONDS == 5         \* main.tsx:124
MaxLiveMain == 2                     \* fixed-phase combinations with a live oracle
MaxLiveExtra == 1                    \* extra-candidate iterations with a live oracle

\* a ratio whose second half leaves out the last point of the path
calculateDuplicateRatioDroppingLast(routePath) ==
    LET midPoint == Len(routePath) \div 2
        firstHalf == SubSeq(routePath, 1, midPoint)
        secondHalf == SubSeq(routePath, midPoint + 1, Len(routePath) - 1)
        duplicateCount ==
            Cardinality({i \in 1..Len(firstHalf) :
                \E j \in 1..Len(secondHalf) :
                    calculateStraightLineDistance(firstHalf[i], secondHalf[j]) * 1000
                        <= DUPLICATE_THRESHOLD_METERS * U})
    IN  IF Len(routePath) < 4 THEN [num |-> 0, den |-> 1]
        ELSE IF Len(firstHalf) = 0 \/ Len(secondHalf) = 0 THEN [num |-> 0, den |-> 1]
        ELSE [num |-> duplicateCount, den |-> Len(firstHalf)]

\* the share of the first half's points that have a point of the second half
\* within 20 m, as a fraction num / den: main.tsx 75-103
calculateDuplicateRatio(routePath) ==
    LET midPoint == Len(routePath) \div 2
        firstHalf == SubSeq(routePath, 1, midPoint)
        secondHalf == SubSeq(routePath, midPoint + 1, Len(routePath))
        duplicateCount ==
            Cardinality({i \in 1..Len(firstHalf) :
                \E j \in 1..Len(secondHalf) :
                    calculateStraightLineDistance(firstHalf[i], secondHalf[j]) * 1000
                        <= DUPLICATE_THRESHOLD_METERS * U})
    IN  IF Len(routePath) < 4 THEN [num |-> 0, den |-> 1]
        ELSE IF Len(firstHalf) = 0 \/ Len(secondHalf) = 0 THEN [num |-> 0, den |-> 1]
        ELSE [num |-> duplicateCount, den |-> Len(firstHalf)]

\* the nested loops of the fixed phase: scale outermost, then 4..8 waypoints
\* (main.tsx 133-139)
SweepMain ==
    LET scaleFactors == <<80, 85, 90, 95, 100>>
    IN  [i \in 1..25 |-> [scale |-> scaleFactors[((i - 1) \div 5) + 1],
                          waypointCount |-> 4 + ((i - 1) % 5)]]

\* values of (randomScale, randomNumWaypoints) that Math.random may produce
\* (main.tsx 206-207); once the budget of the extra phase is spent, every
\* draw of Math.random is 0
RandomCombos ==
    IF liveExtra > 0
    THEN {[scale |-> 80, waypointCount |-> 4], [scale |-> 90, waypointCount |-> 8]}
    ELSE {[scale |-> 80, waypointCount |-> 4]}

\* one candidate of either phase: main.tsx 141-174 and 208-245
EvaluateMain(mins, combo, legAnswers, geometryAnswer) ==
    LET targetSeconds == mins
        maxDurationSeconds == targetSeconds - Seconds(DURATION_MARGIN_SECONDS)
        randomWaypoints == generateCircularWaypoints(startLocation,
                              ((mins * combo.scale) \div 100) \div RUNNING_PACE_MIN_PER_KM_MAIN,
                              combo.waypointCount)
        routeInfo == evaluateRoute(startLocation, randomWaypoints, legAnswers)
        duration == routeInfo.estimatedTime
        closedWaypoints == <<startLocation>> \o randomWaypoints \o <<startLocation>>
        routePath == getClosedRouteGeometry(closedWaypoints, geometryAnswer).path
        duplicateRatio == calculateDuplicateRatio(routePath)
        timeDiff == Abs(targetSeconds - duration)
        score == (timeDiff * 7) \div 10 + (duplicateRatio.num * Seconds(30)) \div duplicateRatio.den
    IN  IF duration > maxDurationSeconds
        THEN [verdict |-> "over", calls |-> combo.waypointCount + 1]
        ELSE [verdict |-> "accepted", calls |-> combo.waypointCount + 2,
              candidate |-> [waypoints |-> randomWaypoints, routeInfo |-> routeInfo,
                             routePath |-> routePath, duration |-> duration,
                             duplicateRatio |-> duplicateRatio, score |-> score]]

\* where the fixed phase goes after position idx: `break` leaves the rest of
\* this scale out (main.tsx 149-151); after the last scale the extra phase
\* starts at i = candidates.length unless the pool holds 10 (main.tsx 199-200)
mainLoopControl(verdict, poolLen, idx) ==
    LET nextIdx == IF verdict = "over" THEN (((idx - 1) \div 5) + 1) * 5 + 1 ELSE idx + 1
    IN  IF nextIdx <= Len(SweepMain) THEN [pc |-> "sweep", idx |-> nextIdx]
        ELSE IF poolLen < MIN_ROUTE_CANDIDATES
        THEN [pc |-> "random", idx |-> Len(SweepMain) + 1 + poolLen]
        ELSE [pc |-> "rank", idx |-> Len(SweepMain) + 1 + MAX_ROUTE_CANDIDATES]

\* one iteration of the fixed phase: main.tsx 133-196
AttemptMain ==
    /\ engine = "v3.0m" /\ pc = "sweep"
    /\ LET combo == SweepMain[sweepIdx]
           wps == generateCircularWaypoints(startLocation,
                     ((minutes * combo.scale) \div 100) \div RUNNING_PACE_MIN_PER_KM_MAIN,
                     combo.waypointCount)
       IN  \E legs \in LegProfiles(minutes, combo.waypointCount),
              geo \in GeometryAnswers(<<startLocation>> \o wps \o <<startLocation>>) :
             LET outcome == EvaluateMain(minutes, combo, legs, geo)
                 pool == IF outcome.verdict = "accepted"
                         THEN Append(candidates, outcome.candidate) ELSE candidates
                 goto == mainLoopControl(outcome.verdict, Len(pool), sweepIdx)
             IN  /\ candidates' = pool
                 /\ oracleCalls' = oracleCalls + outcome.calls
                 /\ live' = IF live > 0 THEN live - 1 ELSE live
                 /\ lastVerdict' = outcome.verdict
                 /\ lastCombo' = combo
                 /\ sweepIdx' = goto.idx
                 /\ pc' = goto.pc
    /\ UNCHANGED <<engine, minutes, policy, outage, tripled, app, cancelled, validation, other, attemptLog, liveExtra, result>>

\* one iteration of the extra-candidate phase, i = sweepIdx - 26: main.tsx 201-247
AttemptRandom ==
    /\ engine = "v3.0m" /\ pc = "random"
    /\ \E combo \in RandomCombos :
         LET wps == generateCircularWaypoints(startLocation,
                       ((minutes * combo.scale) \div 100) \div RUNNING_PACE_MIN_PER_KM_MAIN,
                       combo.waypointCount)
         IN  \E legs \in LegProfilesWhen(liveExtra > 0, minutes, combo.waypointCount),
                geo \in GeometryAnswersWhen(liveExtra > 0,
                                            <<startLocation>> \o wps \o <<startLocation>>) :
               LET outcome == EvaluateMain(minutes, combo, legs, geo)
                   pool == IF outcome.verdict = "accepted"
                           THEN Append(candidates, outcome.candidate) ELSE candidates
                   i == sweepIdx - (Len(SweepMain) + 1)
                   full == outcome.verdict = "accepted" /\ Len(pool) >= MAX_ROUTE_CANDIDATES
               IN  /\ candidates' = pool
                   /\ oracleCalls' = oracleCalls + outcome.calls
                   /\ liveExtra' = IF liveExtra > 0 THEN liveExtra - 1 ELSE liveExtra
                   /\ lastVerdict' = outcome.verdict
                   /\ lastCombo' = combo
                   /\ sweepIdx' = IF full THEN Len(SweepMain) + 1 + MAX_ROUTE_CANDIDATES
                                  ELSE sweepIdx + 1
                   /\ pc' = IF full \/ i + 1 >= MAX_ROUTE_CANDIDATES THEN "rank" ELSE "random"
    /\ UNCHANGED <<engine, minutes, policy, outage, tripled, app, cancelled, validation, other, attemptLog, live, result>>

\* the end of the engine of main.tsx: lines 250-280
SelectMain ==
    /\ engine = "v3.0m" /\ pc = "rank"
    /\ IF Len(candidates) = 0
       THEN pc' = "threw" /\ result' = [kind |-> "NoRouteFound", diagnostic |-> "none"]
       ELSE LET bestCandidate == SortByScore(candidates)[1]
            IN  /\ pc' = "returned"
                /\ result' = [kind |-> "route",
                              waypoints |-> bestCandidate.waypoints,
                              segments |-> bestCandidate.routeInfo.segments,
                              totalDistance |-> bestCandidate.routeInfo.totalDistance,
                              estimatedTime |-> bestCandidate.routeInfo.estimatedTime,
                              routePath |-> bestCandidate.routePath]
    /\ UNCHANGED <<engine, minutes, policy, outage, tripled, app, cancelled, validation, other, sweepIdx, candidates, attemptLog,
                   oracleCalls, live, liveExtra, lastCombo, lastVerdict>>

\* the engines whose oracle requests are a bare `await fetch(url)`
\* (v2.ts 210, 269, 878; part_004 243): no timeout, no abort signal
BareFetchEngines == {"v4.0", "v4.0s", "v3.0", "v2.2", "v3.0m"}

\* the present combination gets as far as its first oracle request
RequestsOracle ==
    IF engine = "v4.0s"
    THEN EvaluateV40s(minutes, SweepV40s[sweepIdx],
                      AllLegsFail(SweepV40s[sweepIdx].waypointCount), OracleFailure).calls > 0
    ELSE TRUE

\* the first request of the call is sent and the oracle never responds: the
\* promise of fetch never settles and nothing else can resume the call
\* (v2.ts 269, 878; part_004 243)
OracleNeverResponds ==
    /\ engine \in BareFetchEngines /\ pc = "sweep"
    /\ ~outage /\ ~tripled /\ oracleCalls = 0 /\ RequestsOracle
    /\ pc' = "waiting"
    /\ oracleCalls' = oracleCalls + 1
    /\ UNCHANGED <<engine, minutes, policy, outage, tripled, app, cancelled, validation, other, sweepIdx, candidates, attemptLog,
                   live, liveExtra, lastCombo, lastVerdict, result>>

\* the caller gives the call up while the sweep is under way.  The engines take
\* a start and the minutes only (v4.ts 392-395, v2.ts 741-744, main.tsx
\* 114-118): no signal reaches them, and their requests carry none either
CallerCancels ==
    /\ pc \in {"sweep", "random"} /\ ~cancelled
    /\ cancelled' = TRUE
    /\ UNCHANGED <<engine, minutes, policy, outage, tripled, app, validation, other, pc, sweepIdx,
                   candidates, attemptLog, oracleCalls, live, liveExtra, lastCombo,
                   lastVerdict, result>>

Engines == {"v4.0", "v4.1", "v4.0s", "v3.0", "v2.2", "v3.0m"}

Init ==
    /\ engine \in Engines
    /\ minutes \in RequestedMinutes
    /\ policy \in (IF engine = "v4.1" THEN {"throw", "fallback"} ELSE {"none"})
    /\ pc = "start"
    /\ sweepIdx = 1
    /\ candidates = <<>>
    /\ attemptLog = {}
    /\ oracleCalls = 0
    /\ outage \in BOOLEAN
    /\ tripled \in (IF outage THEN {FALSE} ELSE BOOLEAN)
    /\ liveExtra \in (IF engine = "v3.0m" /\ ~outage /\ ~tripled THEN {0, MaxLiveExtra} ELSE {0})
    /\ live = (IF outage \/ liveExtra > 0 THEN 0
               ELSE IF engine = "v3.0m" THEN MaxLiveMain ELSE MaxLive)
    /\ cancelled = FALSE
    /\ validation = NoValidation
    /\ other = NoOther
    /\ lastCombo = NoCombo
    /\ lastVerdict = "none"
    /\ result = NoResult
    /\ app = NoApp

Next ==
    \/ ValidateRequest
    \/ AttemptV40
    \/ SelectV40
    \/ AttemptV41
    \/ SelectV41
    \/ AttemptV40s
    \/ SelectV40s
    \/ EnterSweep
    \/ AttemptV30
    \/ AttemptV22
    \/ SelectClosedRoute
    \/ AttemptMain
    \/ AttemptRandom
    \/ SelectMain
    \/ OracleNeverResponds
    \/ CallerCancels

Spec == Init /\ [][Next]_vars


\* ----- unnamed/part_003 (v2.0): generateOptimizedClosedRoute by waypoint count -----
RUNNING_PACE_MIN_PER_KM_V20 == 6     \* unnamed/part_003:47
ROUTE_DISTANCE_RATIO_PERCENT == 70   \* ROUTE_DISTANCE_RATIO = 0.7, unnamed/part_003:50
MAX_WAYPOINTS_V20 == 20              \* unnamed/part_003:53
minWaypointsV20 == 2                 \* unnamed/part_003:319
initialWaypointCount == 6            \* default argument, unnamed/part_003:388
TwoPiPercent == 628                  \* 2 * Math.PI, in hundredths

\* numWaypoints points on the circle whose circumference is
\* maxDistanceKm * ROUTE_DISTANCE_RATIO: part_003 139-160
generateCircularWaypointsV20(start, maxDistanceKm, numWaypoints) ==
    LET straightLineRadius ==
            (((maxDistanceKm * ROUTE_DISTANCE_RATIO_PERCENT) \div 100) * 100) \div TwoPiPercent
    IN  [i \in 1..numWaypoints |-> Loc(((i - 1) * 360) \div numWaypoints, straightLineRadius)]

\* const closedWaypoints = [...waypoints, startLocation] (part_003 271 and 411)
closedWaypointsV20(waypoints, start) == waypoints \o <<start>>

\* the legs between neighbours of closedWaypoints; answers[i] is the oracle's
\* answer to the request of leg i: part_003 262-301
evaluateRouteV20(start, waypoints, answers) ==
    LET closedWaypoints == closedWaypointsV20(waypoints, start)
        info == [i \in 1..(Len(closedWaypoints) - 1) |->
                    getSegmentRouteInfo(closedWaypoints[i], closedWaypoints[i + 1], answers[i])]
        segments == [i \in 1..(Len(closedWaypoints) - 1) |->
                        [from |-> closedWaypoints[i], to |-> closedWaypoints[i + 1],
                         distance |-> info[i].distance, duration |-> info[i].duration]]
    IN  [totalDistance |-> SumSeq([i \in 1..Len(info) |-> info[i].distance]),
         estimatedTime |-> SumSeq([i \in 1..Len(info) |-> info[i].duration]),
         segments |-> segments]

\* multi-point request of part_003 167-214: the oracle's polyline, or the
\* error thrown again
getClosedRouteGeometryV20(waypoints, answer) ==
    IF Len(waypoints) >= 2 /\ answer.ok
    THEN [thrown |-> FALSE, path |-> answer.path]
    ELSE [thrown |-> TRUE, path |-> <<>>]

\* one waypoint count of optimizeWaypointCount: part_003 333-342
EvaluateV20(mins, numWaypoints, legAnswers) ==
    LET candidateWaypoints ==
            generateCircularWaypointsV20(startLocation,
                (mins * RUNNING_PACE_MIN_PER_KM_V20 * 10) \div 12, numWaypoints)
    IN  [waypoints |-> candidateWaypoints,
         routeInfo |-> evaluateRouteV20(startLocation, candidateWaypoints, legAnswers)]

\* one iteration of the loop of optimizeWaypointCount, numWaypoints =
\* minWaypoints + sweepIdx - 1: part_003 330-360; candidates holds the best
\* configuration so far, if any
AttemptV20 ==
    /\ engine = "v2.0" /\ pc = "sweep"
    /\ LET numWaypoints == minWaypointsV20 + sweepIdx - 1
           maxWaypoints == IF initialWaypointCount + 5 < MAX_WAYPOINTS_V20
                           THEN initialWaypointCount + 5 ELSE MAX_WAYPOINTS_V20
       IN  \E legs \in LegProfiles(minutes, numWaypoints - 1) :
             LET c == EvaluateV20(minutes, numWaypoints, legs)
                 within == c.routeInfo.estimatedTime <= minutes
                 bestDistance == IF candidates = <<>> THEN 0
                                 ELSE candidates[1].routeInfo.totalDistance
             IN  /\ candidates' = IF within /\ c.routeInfo.totalDistance > bestDistance
                                  THEN <<c>> ELSE candidates
                 /\ oracleCalls' = oracleCalls + numWaypoints
                 /\ live' = IF live > 0 THEN live - 1 ELSE live
                 /\ lastVerdict' = IF within THEN "accepted" ELSE "over"
                 /\ lastCombo' = [scale |-> 100, waypointCount |-> numWaypoints]
                 /\ sweepIdx' = sweepIdx + 1
                 /\ pc' = IF ~within \/ numWaypoints >= maxWaypoints THEN "rank" ELSE "sweep"
    /\ UNCHANGED <<engine, minutes, policy, outage, tripled, app, cancelled, validation, other, attemptLog, liveExtra, result>>

\* the end of optimizeWaypointCount and of generateOptimizedClosedRoute:
\* part_003 362-436
SelectV20 ==
    /\ engine = "v2.0" /\ pc = "rank"
    /\ IF candidates = <<>>
       THEN /\ pc' = "threw"
            /\ result' = [kind |-> "NoRouteFound", diagnostic |-> "none"]
            /\ oracleCalls' = oracleCalls
       ELSE LET optimalWaypoints == candidates[1].waypoints
                routeInfo == candidates[1].routeInfo
                closedWaypoints == closedWaypointsV20(optimalWaypoints, startLocation)
            IN  \E answer \in GeometryAnswersWhen(~outage, closedWaypoints) :
                  LET routeGeometry == getClosedRouteGeometryV20(closedWaypoints, answer)
                  IN  /\ pc' = "returned"
                      /\ oracleCalls' = oracleCalls + 1
                      /\ result' = [kind |-> "route",
                                    waypoints |-> optimalWaypoints,
                                    segments |-> routeInfo.segments,
                                    totalDistance |-> routeInfo.totalDistance,
                                    estimatedTime |-> routeInfo.estimatedTime,
                                    routePath |-> IF routeGeometry.thrown THEN closedWaypoints
                                                  ELSE routeGeometry.path]
    /\ UNCHANGED <<engine, minutes, policy, outage, tripled, app, cancelled, validation, other, sweepIdx, candidates, attemptLog,
                   live, liveExtra, lastCombo, lastVerdict>>

\* ----- the loop-shaped engines: unnamed/part_003 and main.tsx -----
LoopEngines == {"v2.0", "v3.0m"}

LoopInit ==
    /\ engine \in LoopEngines
    /\ minutes \in RequestedMinutes
    /\ policy = "none"
    /\ pc = "start"
    /\ sweepIdx = 1
    /\ candidates = <<>>
    /\ attemptLog = {}
    /\ oracleCalls = 0
    /\ outage \in BOOLEAN
    /\ tripled \in (IF outage THEN {FALSE} ELSE BOOLEAN)
    /\ liveExtra \in (IF engine = "v3.0m" /\ ~outage /\ ~tripled THEN {0, MaxLiveExtra} ELSE {0})
    /\ live = (IF outage \/ liveExtra > 0 THEN 0
               ELSE IF engine = "v3.0m" THEN MaxLiveMain ELSE MaxLive)
    /\ cancelled = FALSE
    /\ validation = NoValidation
    /\ other = NoOther
    /\ lastCombo = NoCombo
    /\ lastVerdict = "none"
    /\ result = NoResult
    /\ app = NoApp

LoopNext ==
    \/ ValidateRequest
    \/ AttemptV20
    \/ SelectV20
    \/ AttemptMain
    \/ AttemptRandom
    \/ SelectMain

LoopSpec == LoopInit /\ [][LoopNext]_vars

\* ----- App.tsx: the course form and handleGenerateCourse -----
MaxLiveApp == 1   \* sweep combinations of one submission whose oracle requests
                  \* get an arbitrary answer

\* values of the minutes field when the form is submitted
RunningMinutesInputs == {0, (5 * U) \div 2, 10 * U}

\* a handler that does not clear the route of the request before
handleGenerateCourseKeepingRoute ==
    /\ engine = "v3.0" /\ app.pc \in {"idle", "finished"} /\ ~app.isGenerating
    /\ \E runningMinutes \in RunningMinutesInputs :
         LET cleared == [app EXCEPT !.error = ""]
             validation_ == validateRunningMinutes(runningMinutes)
         IN  /\ minutes' = runningMinutes
             /\ IF ~validation_.valid
                THEN /\ app' = [cleared EXCEPT !.pc = "finished", !.error = validation_.error]
                     /\ pc' = "not called"
                     /\ live' = 0
                ELSE /\ app' = [cleared EXCEPT !.pc = "awaiting", !.isGenerating = TRUE]
                     /\ pc' = "start"
                     /\ live' = IF outage THEN 0 ELSE MaxLiveApp
    /\ sweepIdx' = 1
    /\ candidates' = <<>>
    /\ attemptLog' = {}
    /\ oracleCalls' = 0
    /\ lastCombo' = NoCombo
    /\ lastVerdict' = "none"
    /\ result' = NoResult
    /\ UNCHANGED <<engine, policy, outage, tripled, cancelled, validation, other, liveExtra>>

\* the handler up to `await generateOptimizedClosedRoute(location, minutes)`:
\* setError(''), setOptimizedRoute(null), the validation of the minutes, and
\* setIsGenerating(true) (App.tsx 239-265). The submit button is enabled only
\* while isGenerating is false and a location is known (App.tsx 535), so the
\* handler starts only then.
handleGenerateCourse ==
    /\ engine = "v3.0" /\ app.pc \in {"idle", "finished"} /\ ~app.isGenerating
    /\ \E runningMinutes \in RunningMinutesInputs :
         LET cleared == [app EXCEPT !.error = "", !.optimizedRoute = NoResult]
             validation_ == validateRunningMinutes(runningMinutes)
         IN  /\ minutes' = runningMinutes
             /\ IF ~validation_.valid
                THEN /\ app' = [cleared EXCEPT !.pc = "finished", !.error = validation_.error]
                     /\ pc' = "not called"
                     /\ live' = 0
                ELSE /\ app' = [cleared EXCEPT !.pc = "awaiting", !.isGenerating = TRUE]
                     /\ pc' = "start"
                     /\ live' = IF outage THEN 0 ELSE MaxLiveApp
    /\ sweepIdx' = 1
    /\ candidates' = <<>>
    /\ attemptLog' = {}
    /\ oracleCalls' = 0
    /\ lastCombo' = NoCombo
    /\ lastVerdict' = "none"
    /\ result' = NoResult
    /\ UNCHANGED <<engine, policy, outage, tripled, cancelled, validation, other, liveExtra>>

\* the handler after the engine's promise has settled: App.tsx 267-286
handleGenerateCourseSettles ==
    /\ app.pc = "awaiting" /\ pc \in {"returned", "threw"}
    /\ IF pc = "returned"
       THEN app' = [app EXCEPT !.pc = "finished", !.optimizedRoute = result,
                               !.courseDistance = result.totalDistance,
                               !.isGenerating = FALSE]
       ELSE app' = [app EXCEPT !.pc = "finished", !.error = result.kind,
                               !.isGenerating = FALSE]
    /\ UNCHANGED <<engine, minutes, policy, outage, tripled, cancelled, validation, other, pc, sweepIdx,
                   candidates, attemptLog, oracleCalls, live, liveExtra, lastCombo, lastVerdict, result>>

AppInit ==
    /\ engine = "v3.0"
    /\ minutes = 0
    /\ policy = "none"
    /\ pc = "not called"
    /\ sweepIdx = 1
    /\ candidates = <<>>
    /\ attemptLog = {}
    /\ oracleCalls = 0
    /\ outage \in BOOLEAN
    /\ tripled = FALSE
    /\ live = 0
    /\ liveExtra = 0
    /\ cancelled = FALSE
    /\ validation = NoValidation
    /\ other = NoOther
    /\ lastCombo = NoCombo
    /\ lastVerdict = "none"
    /\ result = NoResult
    /\ app = NoApp

AppNext ==
    \/ handleGenerateCourse
    \/ EnterSweep
    \/ AttemptV30
    \/ SelectClosedRoute
    \/ handleGenerateCourseSettles

AppSpec == AppInit /\ [][AppNext]_vars

\* ----- validateRoundTripRoute: routeOptimizer.v4.ts 660-717 (267-324, 1034-1091) -----
validateRoundTripRoute(route, desiredRunningMinutes) ==
    LET path == route.routePath
        startEndDistance == calculateStraightLineDistance(path[1], path[Len(path)])
        estimatedTimeMinutes == route.estimatedTime
        minAllowedTime == desiredRunningMinutes - TIME_TOLERANCE_MIN * U
        maxAllowedTime == desiredRunningMinutes
        errors == (IF startEndDistance * 1000 > U THEN <<"start and end differ">> ELSE <<>>)
                  \o (IF estimatedTimeMinutes > maxAllowedTime THEN <<"over the upper bound">> ELSE <<>>)
                  \o (IF estimatedTimeMinutes < minAllowedTime THEN <<"under the lower bound">> ELSE <<>>)
        warnings == IF Abs(estimatedTimeMinutes - desiredRunningMinutes) < U
                    THEN <<"very close to the target">> ELSE <<>>
    IN  IF path = <<>>
        THEN [isValid |-> FALSE, errors |-> <<"route path is empty">>, warnings |-> <<>>]
        ELSE [isValid |-> Len(errors) = 0, errors |-> errors, warnings |-> warnings]

\* gaps between the ends of the paths handed to the validator (units; 6 is 1 m)
GapsToValidate == {0, 5, 6, 7, U}

\* routes handed to the validator for a request of m minutes
RoutesToValidate(m) ==
    LET paths == {<<>>, <<startLocation>>, <<startLocation, Loc(0, U), startLocation>>}
                 \cup {<<startLocation, Loc(0, U), Loc(0, g)>> : g \in GapsToValidate}
        times == {m - TIME_TOLERANCE_MIN * U - 1, m - TIME_TOLERANCE_MIN * U,
                  m - U, m - U + 1, m - 1, m, m + 1, 3 * m}
    IN  {[kind |-> "route", routePath |-> p, estimatedTime |-> t] : p \in paths, t \in times}

\* a caller holds a route and the minutes it asked for
ValidationInit ==
    /\ engine = "v4.1"
    /\ minutes \in {U \div 2, (5 * U) \div 2, 10 * U, 30 * U}
    /\ result \in RoutesToValidate(minutes)
    /\ pc = "returned"
    /\ validation = NoValidation
    /\ other = NoOther
    /\ policy = "none" /\ outage = FALSE /\ tripled = FALSE /\ cancelled = FALSE
    /\ sweepIdx = 1 /\ candidates = <<>> /\ attemptLog = {} /\ oracleCalls = 0
    /\ live = 0 /\ liveExtra = 0 /\ lastCombo = NoCombo /\ lastVerdict = "none"
    /\ app = NoApp

\* the caller validates the route: part_001 line 157
ValidateRoute ==
    /\ pc = "returned" /\ result.kind = "route"
    /\ validation' = validateRoundTripRoute(result, minutes)
    /\ pc' = "validated"
    /\ UNCHANGED <<engine, minutes, policy, outage, tripled, app, cancelled, other, sweepIdx,
                   candidates, attemptLog, oracleCalls, live, liveExtra, lastCombo,
                   lastVerdict, result>>

ValidationNext == ValidateRoute

ValidationSpec == ValidationInit /\ [][ValidationNext]_vars

\* ----- two calls in flight at once -----
MaxLiveConcurrent == 1               \* combinations with a live oracle, per call

\* everything a call holds: its arguments and the locals declared inside the
\* function body (v4.ts 400-422, v2.ts 746-756 and 786-800); the modules hold
\* constants only
Locals ==
    [engine |-> engine, minutes |-> minutes, policy |-> policy, pc |-> pc,
     sweepIdx |-> sweepIdx, candidates |-> candidates, attemptLog |-> attemptLog,
     oracleCalls |-> oracleCalls, live |-> live, lastCombo |-> lastCombo,
     lastVerdict |-> lastVerdict, result |-> result]

\* the locals of a call that has just been made
NewCall(e, mins, pol) ==
    [engine |-> e, minutes |-> mins, policy |-> pol, pc |-> "start",
     sweepIdx |-> 1, candidates |-> <<>>, attemptLog |-> {},
     oracleCalls |-> 0, live |-> MaxLiveConcurrent, lastCombo |-> NoCombo,
     lastVerdict |-> "none", result |-> NoResult]

\* a switch that leaves the pool and the request counter where they are, as
\* if they were declared at module level
SwitchCallSharingPool ==
    /\ other # NoOther
    /\ other' = Locals
    /\ engine' = other.engine /\ minutes' = other.minutes /\ policy' = other.policy
    /\ pc' = other.pc /\ sweepIdx' = other.sweepIdx
    /\ candidates' = candidates
    /\ attemptLog' = other.attemptLog /\ oracleCalls' = oracleCalls
    /\ live' = other.live /\ lastCombo' = other.lastCombo
    /\ lastVerdict' = other.lastVerdict /\ result' = other.result
    /\ UNCHANGED <<outage, tripled, app, cancelled, validation, liveExtra>>

\* the running call is suspended at an await (or has ended) and the event loop
\* resumes the other one: each call goes on with its own locals
SwitchCall ==
    /\ other # NoOther
    /\ other' = Locals
    /\ engine' = other.engine /\ minutes' = other.minutes /\ policy' = other.policy
    /\ pc' = other.pc /\ sweepIdx' = other.sweepIdx
    /\ candidates' = other.candidates
    /\ attemptLog' = other.attemptLog /\ oracleCalls' = other.oracleCalls
    /\ live' = other.live /\ lastCombo' = other.lastCombo
    /\ lastVerdict' = other.lastVerdict /\ result' = other.result
    /\ UNCHANGED <<outage, tripled, app, cancelled, validation, liveExtra>>

\* two calls with different minutes are made one after the other, before the
\* first has got its first response
ConcurrentInit ==
    /\ engine \in {"v4.1", "v3.0"}
    /\ minutes = (5 * U) \div 2
    /\ policy = (IF engine = "v4.1" THEN "fallback" ELSE "none")
    /\ other \in {NewCall("v4.1", 10 * U, "fallback"), NewCall("v3.0", 10 * U, "none")}
    /\ pc = "start" /\ sweepIdx = 1 /\ candidates = <<>> /\ attemptLog = {}
    /\ oracleCalls = 0 /\ live = MaxLiveConcurrent /\ liveExtra = 0
    /\ lastCombo = NoCombo /\ lastVerdict = "none" /\ result = NoResult
    /\ app = NoApp
    /\ outage = FALSE /\ tripled = FALSE /\ cancelled = FALSE /\ validation = NoValidation

ConcurrentNext ==
    \/ ValidateRequest
    \/ AttemptV41
    \/ SelectV41
    \/ EnterSweep
    \/ AttemptV30
    \/ SelectClosedRoute
    \/ SwitchCall

ConcurrentSpec == ConcurrentInit /\ [][ConcurrentNext]_vars

\* ----- properties -----
RoundTripEngines == {"v4.0", "v4.1", "v4.0s"}

ClosedRouteEngines == {"v3.0", "v2.2"}

\* the estimated round-trip minutes a candidate of the pool carries
CandidateMinutes(c) ==
    IF engine = "v4.1" THEN c.estimatedMinutes
    ELSE IF engine \in {"v4.0", "v4.0s", "v3.0m"} THEN c.routeInfo.estimatedTime
    ELSE c.estimatedTime

InWindow(t) == minutes - TIME_TOLERANCE_MIN * U <= t /\ t <= minutes

OneMetre == U \div 1000

\* the straight-line distance between the first and the last point of a path
EndsGap(path) == calculateStraightLineDistance(path[1], path[Len(path)])

\* C2: every route returned by generateOptimizedRoundTripRoute has a routePath
\* whose first and last points are less than one metre apart.
C2_PathEndsWhereItStarts ==
    (engine \in RoundTripEngines /\ result.kind = "route") =>
        EndsGap(result.routePath) < OneMetre

\* C3: a request whose duration is <= 0 or > 300 minutes is rejected with an
\* invalid-input error before any oracle request is issued and before any
\* candidate is generated, in generateOptimizedRoundTripRoute and in
\* generateOptimizedClosedRoute.
C3_InvalidInputRejectedFirst ==
    InvalidMinutes(minutes) =>
        /\ oracleCalls = 0
        /\ candidates = <<>>
        /\ pc \in {"returned", "threw"} => result.kind = "InvalidInput"

\* the length of the sweep of the running engine
SweepLength ==
    CASE engine = "v4.0" -> Len(SweepV40)
      [] engine = "v4.1" -> Len(SweepV41)
      [] engine = "v4.0s" -> Len(SweepV40s)
      [] engine = "v3.0" -> Len(SweepV30)
      [] engine = "v2.2" -> Len(SweepV22)
      [] engine = "v3.0m" -> Len(SweepMain) + MAX_ROUTE_CANDIDATES

\* the route an engine returns for candidate c of its pool
RouteOf(c) ==
    CASE engine = "v4.1" ->
           [kind |-> "route", waypoints |-> <<c.midLocation>>,
            totalDistance |-> c.roundTripDistance, estimatedTime |-> c.estimatedMinutes,
            routePath |-> c.routePath, score |-> c.score]
      [] engine \in {"v4.0", "v4.0s"} -> RouteOfLoopCandidate(c)
      [] engine = "v3.0m" ->
           [kind |-> "route", waypoints |-> c.waypoints, segments |-> c.routeInfo.segments,
            totalDistance |-> c.routeInfo.totalDistance,
            estimatedTime |-> c.routeInfo.estimatedTime, routePath |-> c.routePath]
      [] engine \in ClosedRouteEngines ->
           [kind |-> "route", midLocation |-> c.midLocation,
            totalDistance |-> c.totalDistance, estimatedTime |-> c.estimatedTime,
            routePath |-> c.routePath, outwardPath |-> c.outwardPath]

\* the call has ended after its argument check let the request through
Finished == pc \in {"returned", "threw"} /\ result.kind # "InvalidInput"

\* C4: generateOptimizedRoundTripRoute fails with the no-route error if and
\* only if the sweep finished with zero accepted candidates; whenever at least
\* one candidate was accepted it returns a route taken from the accepted pool.
C4_NoRouteIffEmptyPool ==
    (engine \in RoundTripEngines /\ Finished) =>
        /\ result.kind = "NoRouteFound" <=> candidates = <<>>
        /\ result.kind = "NoRouteFound" => sweepIdx = SweepLength + 1
        /\ candidates # <<>> =>
              \E i \in 1..Len(candidates) : result = RouteOf(candidates[i])

\* the no-route error after a whole sweep that accepted nothing
C4_Witness ==
    /\ engine \in RoundTripEngines /\ pc = "threw" /\ result.kind = "NoRouteFound"
    /\ candidates = <<>> /\ sweepIdx = SweepLength + 1 /\ oracleCalls > 0

\* the engine variants whose candidates go to a midpoint and come back
OutAndBackEngines == {"v4.1", "v3.0", "v2.2"}

\* a candidate's round-trip distance, and its estimate before any rounding
RoundTripKm(c) == IF engine = "v4.1" THEN c.roundTripDistance ELSE c.totalDistance

UnroundedMinutes(c) == IF engine = "v4.1" THEN c.estimatedMinutes ELSE c.rawEstimate

\* the pace the spec states for the out-and-back engines, in minutes per km
SpecPaceMinPerKm == RUNNING_PACE_MIN_PER_KM_V30

\* C5: in each out-and-back engine variant, a candidate's estimated duration
\* in minutes equals its round-trip distance in km multiplied by the pace of
\* 5 minutes per km, before any rounding.
C5_DurationIsDistanceTimesPace ==
    engine \in OutAndBackEngines =>
        \A i \in 1..Len(candidates) :
            UnroundedMinutes(candidates[i]) = RoundTripKm(candidates[i]) * SpecPaceMinPerKm

IsPalindrome(path) == \A i \in 1..Len(path) : path[i] = path[Len(path) + 1 - i]

IsOutAndBack(routePath, outwardPath) ==
    /\ Len(routePath) = 2 * Len(outwardPath) - 1
    /\ SubSeq(routePath, 1, Len(outwardPath)) = outwardPath
    /\ IsPalindrome(routePath)

\* C6: for every candidate built by tryGenerateRoute or generateCandidates,
\* routePath is the outbound polyline followed by its exact reverse with the
\* turnaround point once: routePath[i] = routePath[length - 1 - i] (0-based)
\* for every i, and routePath has 2 * |outbound| - 1 points.
C6_RoutePathIsPalindrome ==
    /\ engine \in ClosedRouteEngines =>
          \A i \in 1..Len(candidates) :
              IsOutAndBack(candidates[i].routePath, candidates[i].outwardPath)
    /\ (engine = "v2.2" /\ pc = "sweep") =>
          LET b == SweepV22[sweepIdx].bearing
          IN  \A answer \in OracleRoutes(minutes, MinutesPerKmV30, b) :
                  LET route == tryGenerateRoute(startLocation, Loc(b, U), answer)
                  IN  IsOutAndBack(route.routePath, answer.path)

\* a candidate whose outbound polyline has three points and does not start at
\* the requested start
C6_Witness ==
    /\ engine \in ClosedRouteEngines
    /\ \E i \in 1..Len(candidates) :
          /\ Len(candidates[i].outwardPath) = 3
          /\ candidates[i].outwardPath[1] # startLocation
          /\ Len(candidates[i].routePath) = 5

\* C7: a failure while evaluating one sweep combination discards only that
\* candidate: the driver proceeds to the next combination of the sweep, and
\* the overall call fails only after the whole sweep has been tried without
\* an accepted candidate.
C7_FailureDiscardsOneCandidate ==
    /\ [][(pc = "sweep" /\ sweepIdx' = sweepIdx + 1 /\ lastVerdict' = "error") =>
            /\ candidates' = candidates
            /\ result' = result
            /\ pc' = IF sweepIdx < SweepLength THEN "sweep" ELSE "rank"]_vars
    /\ [](result.kind = "NoRouteFound" =>
            candidates = <<>> /\ sweepIdx = SweepLength + 1)

\* a combination of generateCandidates has just failed: the two candidates
\* accepted before it are still in the pool and the sweep goes on
C7_Witness ==
    /\ engine = "v3.0" /\ pc = "sweep" /\ lastVerdict = "error"
    /\ Len(candidates) = 2 /\ sweepIdx > 3

\* C8: if every oracle request fails, the engine still returns a route, built
\* from straight-line fallback distances, with its duration computed only
\* from distance and pace.
C8_OutageStillReturnsRoute ==
    (outage /\ Finished) => result.kind = "route"

\* the engine variants that stop at NUM_ROUTE_CANDIDATES accepted candidates
CappedEngines == {"v4.0", "v4.1", "v4.0s", "v3.0"}

ScoreOf(c) ==
    IF engine \in ClosedRouteEngines THEN Abs(c.estimatedTime - minutes) ELSE c.score

\* C10: the returned route is an accepted candidate with the minimum score;
\* when several accepted candidates share the minimum score, the one that was
\* accepted earliest in sweep order is returned.
C10_BestScoreEarliestOnTie ==
    result.kind = "route" =>
        \E i \in 1..Len(candidates) :
            /\ result = RouteOf(candidates[i])
            /\ \A j \in 1..Len(candidates) : ScoreOf(candidates[j]) >= ScoreOf(candidates[i])
            /\ \A j \in 1..(i - 1) : ScoreOf(candidates[j]) > ScoreOf(candidates[i])

\* a route returned from a pool in which a later candidate ties with it and
\* an earlier one scores worse
C10_Witness ==
    /\ engine \in ClosedRouteEngines /\ result.kind = "route"
    /\ \E i, j, k \in 1..Len(candidates) :
          /\ k < i /\ i < j
          /\ result = RouteOf(candidates[i])
          /\ ScoreOf(candidates[j]) = ScoreOf(candidates[i])
          /\ ScoreOf(candidates[k]) > ScoreOf(candidates[i])

\* the engine variants whose no-route error carries a summary of the attempts
DiagnosingEngines == {"v4.1", "v4.0s"}

\* every combination of the sweep was resolved into a candidate: none failed
EverySweepCombinationResolved ==
    /\ sweepIdx = SweepLength + 1
    /\ \A a \in attemptLog : a.reason # "error"

\* the no-route error says that the attempts exceeded the requested time
SaysAttemptsExceeded(diagnostic) ==
    IF engine = "v4.1" THEN diagnostic = "above the upper bound"
    ELSE diagnostic.cause = "time" /\ diagnostic.longer /\ ~diagnostic.shorter

WaypointsV40(combo) ==
    generateCircularWaypoints(startLocation,
        ((minutes \div 2) * (10 * PACE_KM_PER_MIN_INVERSE) * combo.scale) \div 100,
        combo.waypointCount)

\* the same answer for each of the n + 1 legs of a loop through n waypoints
UniformLegs(answer, n) == [i \in 1..(n + 1) |-> answer]

\* C12: a candidate's estimated duration never depends on the oracle's
\* duration field: for two oracle behaviours that return the same distances
\* but different durations, evaluateRoute and the engine that uses it produce
\* the same estimatedTime and the same accept/reject decision.
C12_DurationFieldIgnored ==
    (engine = "v4.0" /\ pc = "sweep") =>
        LET combo == SweepV40[sweepIdx]
            n == combo.waypointCount
            wps == WaypointsV40(combo)
        IN  \A a1, a2 \in LegAnswers(minutes, n) :
                (a1.ok /\ a2.ok /\ a1.distance = a2.distance) =>
                    /\ evaluateRoute(startLocation, wps, UniformLegs(a1, n)).estimatedTime
                         = evaluateRoute(startLocation, wps, UniformLegs(a2, n)).estimatedTime
                    /\ EvaluateV40(minutes, combo, UniformLegs(a1, n), OracleFailure).verdict
                         = EvaluateV40(minutes, combo, UniformLegs(a2, n), OracleFailure).verdict

\* the engines whose sweep is a fixed nest of loops
FixedSweepEngines == {"v4.0", "v4.1", "v4.0s", "v3.0", "v2.2"}

\* the combinations the engine may visit at its present position: the element
\* of the loop nest (v4.ts 424-439, 808-826, 84-110; v2.ts 796-800; part_004
\* 155-160; main.tsx 133-139), or what Math.random draws (main.tsx 206-207)
NextCombos ==
    CASE engine = "v4.0" -> {SweepV40[sweepIdx]}
      [] engine = "v4.1" -> {SweepV41[sweepIdx]}
      [] engine = "v4.0s" -> {SweepV40s[sweepIdx]}
      [] engine = "v3.0" -> {SweepV30[sweepIdx]}
      [] engine = "v2.2" -> {SweepV22[sweepIdx]}
      [] engine = "v3.0m" -> IF pc = "random" THEN RandomCombos ELSE {SweepMain[sweepIdx]}

C14_EveryCallTerminates == pc \in {"returned", "threw"} \/ ENABLED Next

\* C15: once the caller has cancelled, the call ends with Cancelled and never
\* with a route, and no further oracle request is made.
C15_CancelledCallReturnsCancelled ==
    /\ [](cancelled /\ pc \in {"returned", "threw"} => result.kind = "Cancelled")
    /\ [][cancelled => oracleCalls' = oracleCalls]_vars

\* C16: validateRoundTripRoute(route, m) says isValid exactly when routePath is
\* not empty, its first and last points are less than one metre apart and
\* m - 2 <= estimatedTime <= m; when it says not valid it gives an error.
C16_ValidExactlyWhenClosedAndInWindow ==
    pc = "validated" =>
        /\ validation.isValid <=>
               /\ result.routePath # <<>>
               /\ EndsGap(result.routePath) < OneMetre
               /\ InWindow(result.estimatedTime)
        /\ ~validation.isValid => Len(validation.errors) >= 1

\* the generateOptimizedClosedRoute variants of the model
generateOptimizedClosedRouteEngines == {"v3.0", "v2.2", "v3.0m"}

\* C17: every route returned by generateOptimizedClosedRoute has an
\* estimatedTime of at most the requested minutes, whatever the requested
\* duration and the oracle's responses.
C17_ClosedRouteWithinRequestedMinutes ==
    (engine \in generateOptimizedClosedRouteEngines /\ result.kind = "route") =>
        result.estimatedTime <= minutes

\* C18: a requested duration of 0.5 minutes is rejected with InvalidInput: the
\* form's validation refuses it and the engine throws before any search.
C18_HalfMinuteIsRejected ==
    (minutes = U \div 2 /\ pc # "start") =>
        /\ ~validateRunningMinutes(minutes).valid
        /\ pc = "threw" /\ result.kind = "InvalidInput"

\* candidate c was accepted by the running call for its own minutes
AcceptedForOwnMinutes(c) ==
    IF engine = "v4.1" THEN InWindow(c.estimatedMinutes)
    ELSE Max(1 * U, minutes - TIME_BUFFER_MIN * U) <= c.rawEstimate /\ c.rawEstimate <= minutes

\* C19: the engine keeps no state across calls: with two calls in flight at
\* once, whichever call is running holds only candidates it accepted itself
\* for its own minutes, has counted only its own requests, and returns a route
\* of its own pool (or the no-route error on its own empty pool), as it would
\* alone.
C19_CallsDoNotInterfere ==
    /\ \A i \in 1..Len(candidates) : AcceptedForOwnMinutes(candidates[i])
    /\ oracleCalls = (IF pc = "start" THEN 0 ELSE sweepIdx - 1)
    /\ result.kind = "route" => \E i \in 1..Len(candidates) : result = RouteOf(candidates[i])
    /\ result.kind = "NoRouteFound" => candidates = <<>>

\* both calls have returned a route, each for its own minutes
C19_Witness ==
    /\ other # NoOther
    /\ result.kind = "route" /\ other.result.kind = "route"
    /\ minutes # other.minutes
    /\ Len(candidates) >= 1 /\ Len(other.candidates) >= 1

\* C20: the acceptance window has the lower bound requestedMinutes - 2 and
\* the upper bound requestedMinutes exactly, for every requested duration in
\* (0, 300]: a resolved combination is accepted exactly when its estimate t
\* satisfies requestedMinutes - 2 <= t <= requestedMinutes.
C20_WindowIsMinutesMinusTwoToMinutes ==
    (engine \in {"v3.0", "v2.2"} /\ pc = "sweep" /\ ~InvalidMinutes(minutes)) =>
        LET combo == IF engine = "v3.0" THEN SweepV30[sweepIdx] ELSE SweepV22[sweepIdx]
            verdict(answer) == IF engine = "v3.0"
                               THEN EvaluateV30(minutes, combo, answer).verdict
                               ELSE EvaluateV22(minutes, combo, answer).verdict
            estimate(answer) == IF engine = "v3.0"
                                THEN EstimatedTimeV30(calculatePathDistance(answer.path) * 2)
                                ELSE tryGenerateRoute(startLocation, startLocation, answer).estimatedTime
        IN  \A answer \in OracleRoutes(minutes, MinutesPerKmV30, combo.bearing) :
                verdict(answer) = "accepted" <=> InWindow(estimate(answer))

\* minutes per km of the pace an engine documents (v4.ts 27, 348, 745)
DocumentedPaceMinPerKm ==
    IF engine = "v4.1" THEN RUNNING_PACE_MIN_PER_KM_V41 ELSE PACE_KM_PER_MIN_INVERSE

\* C21: the one-way target distance of the sweep is (requestedMinutes / 2) /
\* paceMinutesPerKm km, and the target distance of a candidate is that base
\* times its scale factor: the points the engine has placed for the candidate
\* it accepted last lie at that distance from the start.
C21_TargetDistanceIsHalfMinutesOverPace ==
    (engine \in RoundTripEngines /\ pc \in {"sweep", "rank"}
        /\ lastVerdict = "accepted" /\ Len(candidates) >= 1) =>
        LET c == candidates[Len(candidates)]
            base == (minutes \div 2) \div DocumentedPaceMinPerKm
            target == (base * lastCombo.scale) \div 100
        IN  IF engine = "v4.1" THEN c.midLocation.r = target
            ELSE \A i \in 1..Len(c.outboundWaypoints) : c.outboundWaypoints[i].r = target


\* how far the estimated time of candidate c is from the requested time
TimeDistance(c) == Abs(minutes - CandidateMinutes(c))

\* C22: time-closeness dominates the ranking: the candidate ranked first, the
\* one the route is built from, is at least as close to the requested time as
\* every other accepted candidate, whatever their overlap, turn-count or
\* waypoint-count terms.
C22_CloserInTimeRanksAhead ==
    result.kind = "route" =>
        \E i \in 1..Len(candidates) :
            /\ result = RouteOf(candidates[i])
            /\ \A j \in 1..Len(candidates) :
                  TimeDistance(candidates[i]) <= TimeDistance(candidates[j])


\* the logged attempts that carry a time estimate, i.e. did not fail at the oracle
EstimatedAttempts == {a \in attemptLog : a.reason # "error"}

\* the cause recorded for attempt a is an estimate below the lower bound
RecordedBelow(a) ==
    a.reason = "under" \/ (a.reason = "anomalous" /\ a.estimatedMin < minAllowedTimeV41(minutes))

\* the cause recorded for attempt a is an estimate above the upper bound
RecordedAbove(a) ==
    a.reason = "over" \/ (a.reason = "anomalous" /\ a.estimatedMin > minutes)

\* C23: the summary of the no-route error of v4.1 matches the causes recorded
\* for the attempts: it says "below the lower bound" only if every estimate
\* was below minAllowedTime, "above the upper bound" only if every estimate
\* was above maxAllowedTime, and in either case it speaks of estimates that
\* exist: attempts that failed at the oracle are not counted as estimates.
C23_DiagnosticMatchesAttempts ==
    (engine = "v4.1" /\ result.kind = "NoRouteFound") =>
        /\ result.diagnostic = "below the lower bound" =>
              /\ EstimatedAttempts # {}
              /\ \A a \in EstimatedAttempts : RecordedBelow(a)
        /\ result.diagnostic = "above the upper bound" =>
              /\ EstimatedAttempts # {}
              /\ \A a \in EstimatedAttempts : RecordedAbove(a)


\* the legs <<from, to>> of the closed loop the last attempt of the first
\* variant evaluated
LastLegs ==
    LET closed == <<startLocation>> \o WaypointsV40(lastCombo) \o <<startLocation>>
    IN  {<<closed[k], closed[k + 1]>> : k \in 1..(Len(closed) - 1)}

\* an answer of the oracle whose route is the straight line between the two
\* points, walked at the pace of the fallback
StraightRouteAnswer(from, to) ==
    [ok |-> TRUE, distance |-> calculateStraightLineDistance(from, to),
     duration |-> calculateStraightLineDistance(from, to) * RUNNING_PACE_MIN_PER_KM_V21]

\* C24: when the oracle request fails, getSegmentRouteInfo returns the
\* straight-line distance with duration = distance x pace, and what it returns
\* differs from what it returns for any request the oracle resolved, so that
\* a caller can tell a fallback segment from an oracle-resolved one.
C24_FallbackSegmentIsMarked ==
    (engine = "v4.0" /\ lastCombo # NoCombo) =>
        \A leg \in LastLegs :
            LET fallback == getSegmentRouteInfo(leg[1], leg[2], OracleFailure)
            IN  /\ fallback.distance = calculateStraightLineDistance(leg[1], leg[2])
                /\ fallback.duration = fallback.distance * RUNNING_PACE_MIN_PER_KM_V21
                /\ \A a \in (LegAnswers(minutes, waypointCountV40) \ {OracleFailure})
                               \cup {StraightRouteAnswer(leg[1], leg[2])} :
                      getSegmentRouteInfo(leg[1], leg[2], a) # fallback


\* the ordered point list the engine that returned `result` sent to the
\* multi-point oracle call (part_003 411-415, main.tsx 157-161)
PointsSentForGeometry ==
    IF engine = "v2.0" THEN closedWaypointsV20(result.waypoints, startLocation)
    ELSE <<startLocation>> \o result.waypoints \o <<startLocation>>

BeginsAndEndsAtStart(path) ==
    Len(path) >= 1 /\ path[1] = startLocation /\ path[Len(path)] = startLocation

\* C25: for loop-shaped routes, the ordered point list sent to the multi-point
\* oracle call begins and ends with the start location, and so does the path
\* of the route when it is that list, the oracle's geometry being unavailable.
C25_LoopListBeginsAndEndsAtStart ==
    (engine \in LoopEngines /\ result.kind = "route") =>
        /\ BeginsAndEndsAtStart(PointsSentForGeometry)
        /\ result.routePath = PointsSentForGeometry => BeginsAndEndsAtStart(result.routePath)


\* C26: evaluateRoute evaluates every leg of the closed loop start -> wp1 ->
\* ... -> wpN -> start: the route built from its result has N + 1 segments
\* for N waypoints, the first starting and the last ending at the start
\* location, each starting where the previous one ended, and totalDistance
\* and estimatedTime are the sums over exactly those segments.
C26_EveryLegOfTheLoopIsEvaluated ==
    (engine \in LoopEngines /\ result.kind = "route") =>
        LET segments == result.segments
        IN  /\ Len(segments) = Len(result.waypoints) + 1
            /\ segments[1].from = startLocation
            /\ segments[Len(segments)].to = startLocation
            /\ \A k \in 1..(Len(segments) - 1) : segments[k + 1].from = segments[k].to
            /\ result.totalDistance = SumSeq([k \in 1..Len(segments) |-> segments[k].distance])
            /\ result.estimatedTime = SumSeq([k \in 1..Len(segments) |-> segments[k].duration])


\* the route paths of the pool that are out-and-back paths: an outbound
\* polyline followed by its reverse
OutAndBackPathsOfPool ==
    IF engine \in OutAndBackEngines
    THEN {c.routePath : c \in {d \in {candidates[i] : i \in 1..Len(candidates)} :
                                   IsPalindrome(d.routePath)}}
    ELSE {}

\* C27: for any out-and-back path (an outbound polyline followed by its exact
\* reverse) calculateDuplicateRatio returns 1.
C27_OutAndBackOverlapIsOne ==
    \A path \in OutAndBackPathsOfPool :
        calculateDuplicateRatio(path).num = calculateDuplicateRatio(path).den

\* C27 as amended: for any out-and-back path of at least 4 points
\* calculateDuplicateRatio returns 1; for a shorter path it returns 0.
C27_LongOutAndBackOverlapIsOne ==
    \A path \in OutAndBackPathsOfPool :
        IF Len(path) >= 4
        THEN calculateDuplicateRatio(path).num = calculateDuplicateRatio(path).den
        ELSE calculateDuplicateRatio(path).num = 0

\* the pool holds an out-and-back path of at least 4 points
C27_Witness == \E path \in OutAndBackPathsOfPool : Len(path) >= 4


\* C28: every route returned by an engine has a strictly positive
\* totalDistance and a strictly positive estimatedTime, whatever the requested
\* duration in (0, 300], durations of 2 minutes or less included.
C28_ReturnedRouteIsPositive ==
    result.kind = "route" => result.totalDistance > 0 /\ result.estimatedTime > 0


\* C29: when handleGenerateCourse finishes, whether the engine returned a
\* route or threw, isGenerating is false; and if the engine threw,
\* optimizedRoute is null and the error message is non-empty, so that no route
\* of an earlier request stays next to the error.
C29_FinishedHandlerLeavesNoStaleRoute ==
    app.pc = "finished" =>
        /\ ~app.isGenerating
        /\ pc = "threw" => (app.optimizedRoute = NoResult /\ app.error # "")

\* the handler has finished on an engine error, after an earlier request had
\* returned a route
C29_Witness ==
    app.pc = "finished" /\ pc = "threw" /\ app.courseDistance > 0


\* C30: the estimatedTime reported on a returned out-and-back route, rounded
\* to one decimal place, lies within the acceptance window [minTime, maxTime]
\* against which the candidate was checked.
C30_RoundedEstimateWithinWindow ==
    (engine \in ClosedRouteEngines /\ result.kind = "route") =>
        /\ Max(1 * U, minutes - TIME_BUFFER_MIN * U) <= result.estimatedTime
        /\ result.estimatedTime <= minutes

====
